---- MODULE Spec2Model ----
(***************************************************************************)
(* Model of tools/clean_annotation_file_from_labels.py: the command-line   *)
(* entry point main() and clean_coco_annotations(), together with the part *)
(* of the file system and of the json module they act on.                  *)
(*                                                                         *)
(* A file's content is a sequence of lexemes (punctuation, quoted strings, *)
(* number literals, runs of white space).  A parsed JSON value is a tagged *)
(* record; a JSON object is an ORDERED sequence of key/value members, as a *)
(* Python dict is.                                                         *)
(***************************************************************************)
EXTENDS Integers, Sequences, FiniteSets, TLC

(***************************************************************************)
(* Bounds of the model.                                                    *)
(***************************************************************************)
\* Most category records plus annotation records in the source document.
MaxRecords == 3
\* Lexemes that reach the disk in one flush of the output buffer.
WriteBlock == 12

(***************************************************************************)
(* Program constants.                                                      *)
(***************************************************************************)
\* json.dump's indent when the output path differs from the source path.
PrettyIndent == 2
\* sys.exit(1)
ExitFailure == 1
\* The exit status of a run that returns from main().
ExitSuccess == 0

(***************************************************************************)
(* JSON values (what json.load returns, what json.dump takes).             *)
(***************************************************************************)
Num(n) == [t |-> "num", v |-> n]
Str(s) == [t |-> "str", v |-> s]
Arr(s) == [t |-> "arr", v |-> s]
Obj(m) == [t |-> "obj", v |-> m]
Member(k, val) == [k |-> k, v |-> val]
\* Python's None.
None == [t |-> "none", v |-> <<>>]

\* key in d
HasKey(d, key) == d.t = "obj" /\ \E i \in 1..Len(d.v) : d.v[i].k = key
\* d[key]; a missing key is a KeyError, which RaisesKeyError decides before any use,
\* and the value is then None
GetItem(d, key) ==
    IF HasKey(d, key) THEN d.v[CHOOSE i \in 1..Len(d.v) : d.v[i].k = key].v ELSE None
\* d[key] = val, for a key that is present: the key keeps its position
SetItem(d, key, val) ==
    Obj([i \in 1..Len(d.v) |-> IF d.v[i].k = key THEN Member(key, val) ELSE d.v[i]])

(***************************************************************************)
(* Lexemes.                                                                *)
(***************************************************************************)
JsonStrings == {"images", "categories", "annotations", "id", "name",
                "category_id", "a", "b", "c"}
JsonNumbers == 0..9

Quote(s) == "\"" \o s \o "\""
RECURSIVE Spaces(_)
Spaces(n) == IF n = 0 THEN "" ELSE " " \o Spaces(n - 1)
\* json's indent: a newline and indent * level spaces, one white-space run.
NewlineIndent(indent, level) == "\n" \o Spaces(indent * level)

StringLexemes == {Quote(s) : s \in JsonStrings}
NumberLexemes == {ToString(n) : n \in JsonNumbers}
Whitespace == {" "} \cup {NewlineIndent(1, n) : n \in 0..8}

Unquote(lex) == CHOOSE s \in JsonStrings : Quote(s) = lex
NumberOf(lex) == CHOOSE n \in JsonNumbers : ToString(n) = lex


(***************************************************************************)
(* json.dump(obj, f, indent=...): the text written.  With indent None the  *)
(* separators are ", " and ": "; with a number they are "," and ": " and   *)
(* every element starts on its own indented line.  Empty containers are    *)
(* written "[]" and "{}" either way.                                       *)
(***************************************************************************)
ItemSeparator(indent, level) ==
    IF indent.t = "none" THEN <<",", " ">> ELSE <<",", NewlineIndent(indent.v, level)>>
OpenLine(indent, level) ==
    IF indent.t = "none" THEN <<>> ELSE <<NewlineIndent(indent.v, level)>>

RECURSIVE DumpValue(_, _, _), DumpElements(_, _, _, _), DumpMembers(_, _, _, _)
DumpValue(val, indent, level) ==
    CASE val.t = "num" -> <<ToString(val.v)>>
      [] val.t = "str" -> <<Quote(val.v)>>
      [] val.t = "arr" ->
            IF val.v = <<>> THEN <<"[", "]">>
            ELSE <<"[">> \o OpenLine(indent, level + 1)
                 \o DumpElements(val.v, 1, indent, level + 1)
                 \o OpenLine(indent, level) \o <<"]">>
      [] val.t = "obj" ->
            IF val.v = <<>> THEN <<"{", "}">>
            ELSE <<"{">> \o OpenLine(indent, level + 1)
                 \o DumpMembers(val.v, 1, indent, level + 1)
                 \o OpenLine(indent, level) \o <<"}">>
DumpElements(s, i, indent, level) ==
    DumpValue(s[i], indent, level)
    \o (IF i = Len(s) THEN <<>>
        ELSE ItemSeparator(indent, level) \o DumpElements(s, i + 1, indent, level))
DumpMembers(m, i, indent, level) ==
    <<Quote(m[i].k), ":", " ">> \o DumpValue(m[i].v, indent, level)
    \o (IF i = Len(m) THEN <<>>
        ELSE ItemSeparator(indent, level) \o DumpMembers(m, i + 1, indent, level))
Dump(val, indent) == DumpValue(val, indent, 0)

(***************************************************************************)
(* json.load(f): a recursive-descent parse of the whole text.  A result is *)
(* [ok, val, pos]: pos is the index of the first lexeme after the value.   *)
(* Any failure is json.JSONDecodeError.                                    *)
(***************************************************************************)
ParseError == [ok |-> FALSE, val |-> None, pos |-> 0]
Parsed(val, pos) == [ok |-> TRUE, val |-> val, pos |-> pos]

RECURSIVE SkipWhitespace(_, _)
SkipWhitespace(text, i) ==
    IF i <= Len(text) /\ text[i] \in Whitespace THEN SkipWhitespace(text, i + 1) ELSE i

RECURSIVE ParseValue(_, _), ParseElements(_, _, _), ParseMembers(_, _, _)
ParseValue(text, start) ==
    LET i == SkipWhitespace(text, start) IN
    IF i > Len(text) THEN ParseError
    ELSE CASE text[i] \in NumberLexemes -> Parsed(Num(NumberOf(text[i])), i + 1)
           [] text[i] \in StringLexemes -> Parsed(Str(Unquote(text[i])), i + 1)
           [] text[i] = "[" ->
                LET j == SkipWhitespace(text, i + 1) IN
                IF j <= Len(text) /\ text[j] = "]" THEN Parsed(Arr(<<>>), j + 1)
                ELSE ParseElements(text, j, <<>>)
           [] text[i] = "{" ->
                LET j == SkipWhitespace(text, i + 1) IN
                IF j <= Len(text) /\ text[j] = "}" THEN Parsed(Obj(<<>>), j + 1)
                ELSE ParseMembers(text, j, <<>>)
           [] OTHER -> ParseError
ParseElements(text, start, acc) ==
    LET e == ParseValue(text, start) IN
    IF ~e.ok THEN ParseError
    ELSE LET j == SkipWhitespace(text, e.pos) IN
         IF j > Len(text) THEN ParseError
         ELSE CASE text[j] = "," -> ParseElements(text, j + 1, Append(acc, e.val))
                [] text[j] = "]" -> Parsed(Arr(Append(acc, e.val)), j + 1)
                [] OTHER -> ParseError
ParseMembers(text, start, acc) ==
    LET i == SkipWhitespace(text, start) IN
    IF i > Len(text) \/ text[i] \notin StringLexemes THEN ParseError
    ELSE LET c == SkipWhitespace(text, i + 1) IN
         IF c > Len(text) \/ text[c] # ":" THEN ParseError
         ELSE LET e == ParseValue(text, c + 1) IN
              IF ~e.ok THEN ParseError
              ELSE LET j == SkipWhitespace(text, e.pos)
                       m == Append(acc, Member(Unquote(text[i]), e.val))
                   IN IF j > Len(text) THEN ParseError
                      ELSE CASE text[j] = "," -> ParseMembers(text, j + 1, m)
                             [] text[j] = "}" -> Parsed(Obj(m), j + 1)
                             [] OTHER -> ParseError
\* The whole text must be one value followed by white space only.
Load(text) ==
    LET r == ParseValue(text, 1) IN
    IF r.ok /\ SkipWhitespace(text, r.pos) > Len(text) THEN r ELSE ParseError

(***************************************************************************)
(* The file system: path names resolve to files; two spellings may name    *)
(* the same file.                                                          *)
(***************************************************************************)
Paths == {"a.json", "./a.json", "b.json"}
Files == {"fileA", "fileB"}
Resolve(path) == IF path = "b.json" THEN "fileB" ELSE "fileA"
NoFile == [exists |-> FALSE, text |-> <<>>]
File(text) == [exists |-> TRUE, text |-> text]

(***************************************************************************)
(* The source documents considered.                                        *)
(***************************************************************************)
CategoryRecords ==
    { Obj(<<Member("id", Num(0)), Member("name", Str("a"))>>),
      Obj(<<Member("id", Num(1)), Member("name", Str("b"))>>),
      Obj(<<Member("id", Num(1))>>),
      Obj(<<Member("name", Str("c"))>>) }
\* The i-th annotation of its document; c = 2 stands for "no category_id".
AnnotationRecord(i, c) ==
    IF c = 2 THEN Obj(<<Member("id", Num(i))>>)
    ELSE Obj(<<Member("id", Num(i)), Member("category_id", Num(c))>>)
CategoryLists(n) == UNION {[1..k -> CategoryRecords] : k \in 0..n}
AnnotationLists(n) ==
    UNION {{[i \in 1..k |-> AnnotationRecord(i, cs[i])] : cs \in [1..k -> 0..2]} : k \in 0..n}
Images == Arr(<<Obj(<<Member("id", Num(1))>>)>>)
Document(hasCats, cats, hasAnns, anns) ==
    Obj(<<Member("images", Images)>>
        \o (IF hasCats THEN <<Member("categories", Arr(cats))>> ELSE <<>>)
        \o (IF hasAnns THEN <<Member("annotations", Arr(anns))>> ELSE <<>>))
Documents ==
    {Document(TRUE, cats, TRUE, anns) :
        <<cats, anns>> \in {p \in CategoryLists(MaxRecords) \X AnnotationLists(MaxRecords) :
                              Len(p[1]) + Len(p[2]) <= MaxRecords}}
    \cup {Document(FALSE, <<>>, TRUE, anns) : anns \in AnnotationLists(1)}
    \cup {Document(TRUE, cats, FALSE, <<>>) : cats \in CategoryLists(1)}
\* A source that is not JSON: a document cut short.
BrokenText == <<"{", Quote("images"), ":">>
SourceFiles ==
    {NoFile, File(BrokenText)} \cup {File(Dump(d, Num(PrettyIndent))) : d \in Documents}
OldOutput == File(Dump(Obj(<<>>), None))

(***************************************************************************)
(* The command line.  The category-id argument is a string, modelled as    *)
(* its characters.                                                         *)
(***************************************************************************)
NoPath == "<None>"
CategoryIdArgs ==
    { <<"0">>, <<"0", ",", " ", "1">>, <<"1", ",", "1">>, <<"x", ",", "1">>, <<>> }
OutputArgs == {NoPath} \cup Paths

\* str.split(","): the pieces between commas; always at least one piece.
RECURSIVE SplitFrom(_, _, _)
SplitFrom(chars, i, piece) ==
    IF i > Len(chars) THEN <<piece>>
    ELSE IF chars[i] = "," THEN <<piece>> \o SplitFrom(chars, i + 1, <<>>)
    ELSE SplitFrom(chars, i + 1, Append(piece, chars[i]))
Split(chars) == SplitFrom(chars, 1, <<>>)
\* str.strip()
RECURSIVE Strip(_)
Strip(chars) ==
    IF chars = <<>> THEN chars
    ELSE IF Head(chars) = " " THEN Strip(Tail(chars))
    ELSE IF chars[Len(chars)] = " " THEN Strip(SubSeq(chars, 1, Len(chars) - 1))
    ELSE chars
Digits == {ToString(n) : n \in 0..9}
DigitValue(ch) == CHOOSE n \in 0..9 : ToString(n) = ch
\* Mutant: the empty string passes as an integer.
IsIntOrEmpty(chars) == \A i \in 1..Len(chars) : chars[i] \in Digits
\* int(s) raises ValueError unless s is a non-empty run of digits.
IsInt(chars) == chars # <<>> /\ \A i \in 1..Len(chars) : chars[i] \in Digits
RECURSIVE IntOf(_)
IntOf(chars) ==
    IF chars = <<>> THEN 0
    ELSE 10 * IntOf(SubSeq(chars, 1, Len(chars) - 1)) + DigitValue(chars[Len(chars)])
ParseIds(chars) ==
    LET pieces == Split(chars)
        tokens == [i \in 1..Len(pieces) |-> Strip(pieces[i])]
    IN [ok |-> \A i \in 1..Len(tokens) : IsInt(tokens[i]),
        ids |-> [i \in 1..Len(tokens) |-> IF IsInt(tokens[i]) THEN IntOf(tokens[i]) ELSE 0]]

(***************************************************************************)
(* State.                                                                  *)
(***************************************************************************)
VARIABLES
    fs,                          \* file -> [exists, text]
    argv,                        \* args of main(): annotation_file, category_ids, output_file, verbose
    pc,                          \* where the run is
    category_ids,                \* main(): the parsed list
    data,                        \* clean_coco_annotations(): the loaded document
    category_ids_to_remove,      \* the removal set
    original_categories_count,
    original_annotations_count,
    categories_removed,
    annotations_removed,
    output_file_path,
    stats,                       \* the returned dict
    stdout,
    stderr,
    exit_code,
    source_opened,               \* the source file has been opened for reading in this run
    output_opened,               \* the destination has been opened for writing in this run
    fs_before,                   \* the file system when this run started
    run,                         \* "first", or "second": the same command run on the first run's output
    first                        \* the first run's written document and statistics

vars == <<fs, argv, pc, category_ids, data, category_ids_to_remove,
          original_categories_count, original_annotations_count, categories_removed,
          annotations_removed, output_file_path, stats, stdout, stderr, exit_code,
          source_opened, output_opened, fs_before, run, first>>

locals == <<category_ids, data, category_ids_to_remove, original_categories_count,
            original_annotations_count, categories_removed, annotations_removed,
            output_file_path, stats>>

NoStats == [returned |-> FALSE,
            categories_removed_count |-> 0, categories_removed |-> <<>>,
            annotations_removed_count |-> 0,
            original_categories_count |-> 0, original_annotations_count |-> 0,
            final_categories_count |-> 0, final_annotations_count |-> 0,
            output_file |-> NoPath]
NoFirst == [data |-> None, stats |-> NoStats]

Start ==
    /\ pc = "parse_ids"
    /\ category_ids = <<>>
    /\ data = None
    /\ category_ids_to_remove = {}
    /\ original_categories_count = 0
    /\ original_annotations_count = 0
    /\ categories_removed = <<>>
    /\ annotations_removed = <<>>
    /\ output_file_path = NoPath
    /\ stats = NoStats
    /\ stdout = <<>>
    /\ stderr = <<>>
    /\ exit_code = -1
    /\ source_opened = FALSE
    /\ output_opened = FALSE

Init ==
    /\ \E source \in SourceFiles :
          fs = [f \in Files |-> IF f = "fileA" THEN source ELSE OldOutput]
    /\ argv \in [annotation_file : {"a.json"}, category_ids : CategoryIdArgs,
                 output_file : OutputArgs, verbose : BOOLEAN]
    /\ Start
    /\ fs_before = fs
    /\ run = "first"
    /\ first = NoFirst

(***************************************************************************)
(* Leaving main().                                                         *)
(***************************************************************************)
\* print(message, file=sys.stderr); sys.exit(1)
Fail(message) ==
    /\ stderr' = Append(stderr, message)
    /\ exit_code' = ExitFailure
    /\ pc' = "exited"

(***************************************************************************)
(* main(), lines 130-139: parse the category ids.                          *)
(***************************************************************************)
ParseCategoryIds ==
    /\ pc = "parse_ids"
    /\ LET r == ParseIds(argv.category_ids) IN
       IF ~r.ok
       THEN /\ Fail("Error: Category IDs must be integers separated by commas")
            /\ UNCHANGED category_ids
       ELSE IF r.ids = <<>>
       THEN /\ Fail("Error: At least one category ID must be specified")
            /\ UNCHANGED category_ids
       ELSE /\ category_ids' = r.ids
            /\ pc' = "check_exists"
            /\ UNCHANGED <<stderr, exit_code>>
    /\ UNCHANGED <<fs, argv, data, category_ids_to_remove, original_categories_count,
                   original_annotations_count, categories_removed, annotations_removed,
                   output_file_path, stats, stdout, source_opened, output_opened,
                   fs_before, run, first>>

(***************************************************************************)
(* main(), lines 141-144: the source file must exist.                      *)
(***************************************************************************)
CheckExists ==
    /\ pc = "check_exists"
    /\ IF ~fs[Resolve(argv.annotation_file)].exists
       THEN Fail("Error: Annotation file not found")
       ELSE /\ pc' = "load"
            /\ UNCHANGED <<stderr, exit_code>>
    /\ UNCHANGED <<fs, argv, locals, stdout, source_opened, output_opened,
                   fs_before, run, first>>

(***************************************************************************)
(* clean_coco_annotations(), lines 30-37: open and parse the source.       *)
(***************************************************************************)
LoadSource ==
    /\ pc = "load"
    /\ LET f == fs[Resolve(argv.annotation_file)]
           r == Load(f.text)
       IN IF ~f.exists
          THEN /\ Fail("Error: Annotation file not found")
               /\ UNCHANGED <<data, source_opened>>
          ELSE /\ source_opened' = TRUE
               /\ IF ~r.ok
                  THEN /\ Fail("Error: Invalid JSON file")
                       /\ UNCHANGED data
                  ELSE /\ data' = r.val
                       /\ pc' = "filter"
                       /\ UNCHANGED <<stderr, exit_code>>
    /\ UNCHANGED <<fs, argv, category_ids, category_ids_to_remove,
                   original_categories_count, original_annotations_count,
                   categories_removed, annotations_removed, output_file_path, stats,
                   stdout, output_opened, fs_before, run, first>>

(***************************************************************************)
(* clean_coco_annotations(), lines 39-64: validate and filter.             *)
(***************************************************************************)
\* value in category_ids_to_remove, a set of ints
InRemovalSet(val, ids) == val.t = "num" /\ val.v \in ids
\* The list without its first element at an index of hits.
DropFirst(list, hits) ==
    IF hits = {} THEN list
    ELSE LET lowest == CHOOSE i \in hits : \A j \in hits : i <= j
         IN [i \in 1..(Len(list) - 1) |-> IF i < lowest THEN list[i] ELSE list[i + 1]]
\* Mutant: the kept categories are renumbered 0, 1, ... in their new order.
KeptCategoriesRenumbered(cats, ids) ==
    LET kept == SelectSeq(cats, LAMBDA cat : ~InRemovalSet(GetItem(cat, "id"), ids))
    IN [i \in 1..Len(kept) |-> SetItem(kept[i], "id", Num(i - 1))]
\* Mutant: only the first category with an id of the set is dropped.
KeptCategoriesFirstOnly(cats, ids) ==
    DropFirst(cats, {i \in 1..Len(cats) : InRemovalSet(GetItem(cats[i], "id"), ids)})
\* line 54
KeptCategories(cats, ids) ==
    SelectSeq(cats, LAMBDA cat : ~InRemovalSet(GetItem(cat, "id"), ids))
\* Mutant: the test is negated, the kept categories are reported as removed.
RemovedCategoriesNegated(cats, ids) ==
    SelectSeq(cats, LAMBDA cat : ~InRemovalSet(GetItem(cat, "id"), ids))
\* line 55
RemovedCategories(cats, ids) ==
    SelectSeq(cats, LAMBDA cat : InRemovalSet(GetItem(cat, "id"), ids))
\* Mutant: the annotation's own id is tested in place of its category_id.
KeptAnnotationsByOwnId(anns, ids) ==
    SelectSeq(anns, LAMBDA ann : ~InRemovalSet(GetItem(ann, "id"), ids))
\* Mutant: only the first annotation with a category_id of the set is dropped.
KeptAnnotationsFirstOnly(anns, ids) ==
    DropFirst(anns, {i \in 1..Len(anns) : InRemovalSet(GetItem(anns[i], "category_id"), ids)})
\* line 59
KeptAnnotations(anns, ids) ==
    SelectSeq(anns, LAMBDA ann : ~InRemovalSet(GetItem(ann, "category_id"), ids))
\* line 60
RemovedAnnotations(anns, ids) ==
    SelectSeq(anns, LAMBDA ann : InRemovalSet(GetItem(ann, "category_id"), ids))
\* lines 63-64
ResolveOutputPath(output_file, annotation_file) ==
    IF output_file = NoPath THEN annotation_file ELSE output_file
\* set(category_ids_to_remove), line 46
ToSet(ids) == {ids[i] : i \in 1..Len(ids)}
\* Mutant: a missing field is read as None (dict.get), nothing is raised.
NeverRaisesKeyError(records, key) == FALSE
\* record[key] over the records of a list raises KeyError at the first one without key
RaisesKeyError(records, key) == \E i \in 1..Len(records) : ~HasKey(records[i], key)

FilterDocument ==
    /\ pc = "filter"
    /\ IF ~HasKey(data, "categories")
       THEN /\ Fail("Error: 'categories' field not found in annotation file")
            /\ UNCHANGED <<data, category_ids_to_remove, original_categories_count,
                           original_annotations_count, categories_removed,
                           annotations_removed, output_file_path>>
       ELSE IF ~HasKey(data, "annotations")
       THEN /\ Fail("Error: 'annotations' field not found in annotation file")
            /\ UNCHANGED <<data, category_ids_to_remove, original_categories_count,
                           original_annotations_count, categories_removed,
                           annotations_removed, output_file_path>>
       ELSE LET ids == ToSet(category_ids)
                cats == GetItem(data, "categories").v
                anns == GetItem(data, "annotations").v
            IN /\ category_ids_to_remove' = ids
               /\ original_categories_count' = Len(cats)
               /\ original_annotations_count' = Len(anns)
               /\ IF RaisesKeyError(cats, "id")
                  THEN \* KeyError at line 54
                       /\ Fail("Error: 'id'")
                       /\ UNCHANGED <<data, categories_removed, annotations_removed,
                                      output_file_path>>
                  ELSE /\ categories_removed' = RemovedCategories(cats, ids)
                       /\ IF RaisesKeyError(anns, "category_id")
                          THEN \* KeyError at line 59, after line 54 has assigned
                               /\ Fail("Error: 'category_id'")
                               /\ data' = SetItem(data, "categories", Arr(KeptCategories(cats, ids)))
                               /\ UNCHANGED <<annotations_removed, output_file_path>>
                          ELSE /\ data' = SetItem(SetItem(data, "categories",
                                                          Arr(KeptCategories(cats, ids))),
                                                  "annotations", Arr(KeptAnnotations(anns, ids)))
                               /\ annotations_removed' = RemovedAnnotations(anns, ids)
                               /\ output_file_path' =
                                      ResolveOutputPath(argv.output_file, argv.annotation_file)
                               /\ pc' = "open_output"
                               /\ UNCHANGED <<stderr, exit_code>>
    /\ UNCHANGED <<fs, argv, category_ids, stats, stdout, source_opened, output_opened,
                   fs_before, run, first>>

(***************************************************************************)
(* clean_coco_annotations(), lines 66-71: write the destination.           *)
(* open(path, 'w') creates or truncates the file; json.dump writes through *)
(* a buffer that reaches the disk a block at a time.                       *)
(***************************************************************************)
\* Mutant: the output is always indented.
DumpIndentAlways(output_path, annotation_path) == Num(PrettyIndent)
\* line 69
DumpIndent(output_path, annotation_path) ==
    IF output_path # annotation_path THEN Num(PrettyIndent) ELSE None
OutputText == Dump(data, DumpIndent(output_file_path, argv.annotation_file))
\* What a write that fails can have put on the disk: whole blocks, never all of it.
FlushedLengths(text) == {k \in 0..(Len(text) - 1) : k % WriteBlock = 0}

OpenOutput ==
    /\ pc = "open_output"
    /\ fs' = [fs EXCEPT ![Resolve(output_file_path)] = File(<<>>)]
    /\ output_opened' = TRUE
    /\ pc' = "dump"
    /\ UNCHANGED <<argv, locals, stdout, stderr, exit_code, source_opened,
                   fs_before, run, first>>

\* open() raises (permissions, invalid path): lines 70-71
OpenOutputFails ==
    /\ pc = "open_output"
    /\ Fail("Error: Failed to write output file")
    /\ UNCHANGED <<fs, argv, locals, stdout, source_opened, output_opened,
                   fs_before, run, first>>

DumpDocument ==
    /\ pc = "dump"
    /\ fs' = [fs EXCEPT ![Resolve(output_file_path)] = File(OutputText)]
    /\ pc' = "report"
    /\ UNCHANGED <<argv, locals, stdout, stderr, exit_code, source_opened,
                   output_opened, fs_before, run, first>>

\* a write raises (disk full, I/O error): lines 70-71
DumpDocumentFails ==
    /\ pc = "dump"
    /\ \E k \in FlushedLengths(OutputText) :
          fs' = [fs EXCEPT ![Resolve(output_file_path)] = File(SubSeq(OutputText, 1, k))]
    /\ Fail("Error: Failed to write output file")
    /\ UNCHANGED <<argv, locals, stdout, source_opened, output_opened,
                   fs_before, run, first>>

(***************************************************************************)
(* clean_coco_annotations(), lines 73-85, and main(), lines 154-167:       *)
(* return the statistics and print the summary.                            *)
(***************************************************************************)
\* Mutant: the final category count is taken before the filter.
StatisticsCountedEarly ==
    [returned |-> TRUE,
     categories_removed_count |-> Len(categories_removed),
     categories_removed |-> categories_removed,
     annotations_removed_count |-> Len(annotations_removed),
     original_categories_count |-> original_categories_count,
     original_annotations_count |-> original_annotations_count,
     final_categories_count |-> original_categories_count,
     final_annotations_count |-> Len(GetItem(data, "annotations").v),
     output_file |-> output_file_path]
Statistics ==
    [returned |-> TRUE,
     categories_removed_count |-> Len(categories_removed),
     categories_removed |-> categories_removed,
     annotations_removed_count |-> Len(annotations_removed),
     original_categories_count |-> original_categories_count,
     original_annotations_count |-> original_annotations_count,
     final_categories_count |-> Len(GetItem(data, "categories").v),
     final_annotations_count |-> Len(GetItem(data, "annotations").v),
     output_file |-> output_file_path]
Summary(st) ==
    << <<"Successfully cleaned annotation file">>,
       <<"Categories removed:", ToString(st.categories_removed_count),
         ToString(st.original_categories_count), ToString(st.final_categories_count)>>,
       <<"Annotations removed:", ToString(st.annotations_removed_count),
         ToString(st.original_annotations_count), ToString(st.final_annotations_count)>>,
       <<"Output file:", st.output_file>> >>
\* lines 162-163, one line per removed category; cat['name'] must exist
CategoryLine(cat) ==
    <<"-", ToString(GetItem(cat, "id").v), GetItem(cat, "name").v,
      IF HasKey(cat, "supercategory") THEN GetItem(cat, "supercategory").v ELSE "none">>
\* The index of the first removed category without a name, or 0.
FirstUnnamed(cats) ==
    IF ~RaisesKeyError(cats, "name") THEN 0
    ELSE CHOOSE i \in 1..Len(cats) :
            /\ ~HasKey(cats[i], "name")
            /\ \A j \in 1..(i - 1) : HasKey(cats[j], "name")

ReportStatistics ==
    /\ pc = "report"
    /\ stats' = Statistics
    /\ LET st == Statistics
           removed == st.categories_removed
           bad == FirstUnnamed(removed)
       IN IF argv.verbose /\ removed # <<>>
          THEN IF bad = 0
               THEN /\ stdout' = stdout \o Summary(st) \o << <<"Removed categories:">> >>
                                 \o [i \in 1..Len(removed) |-> CategoryLine(removed[i])]
                    /\ exit_code' = ExitSuccess
                    /\ pc' = "exited"
                    /\ UNCHANGED stderr
               ELSE \* KeyError at line 163, caught at line 165
                    /\ stdout' = stdout \o Summary(st) \o << <<"Removed categories:">> >>
                                 \o [i \in 1..(bad - 1) |-> CategoryLine(removed[i])]
                    /\ Fail("Error: 'name'")
          ELSE /\ stdout' = stdout \o Summary(st)
               /\ exit_code' = ExitSuccess
               /\ pc' = "exited"
               /\ UNCHANGED stderr
    /\ UNCHANGED <<fs, argv, category_ids, data, category_ids_to_remove,
                   original_categories_count, original_annotations_count,
                   categories_removed, annotations_removed, output_file_path,
                   source_opened, output_opened, fs_before, run, first>>

(***************************************************************************)
(* The same command line run again on the file the first run wrote.        *)
(***************************************************************************)
RunAgain ==
    /\ pc = "exited"
    /\ exit_code = ExitSuccess
    /\ run = "first"
    /\ run' = "second"
    /\ first' = [data |-> data, stats |-> stats]
    /\ \E out \in {NoPath, "b.json"} :
          argv' = [argv EXCEPT !.annotation_file = stats.output_file, !.output_file = out]
    /\ fs_before' = fs
    /\ pc' = "parse_ids"
    /\ category_ids' = <<>>
    /\ data' = None
    /\ category_ids_to_remove' = {}
    /\ original_categories_count' = 0
    /\ original_annotations_count' = 0
    /\ categories_removed' = <<>>
    /\ annotations_removed' = <<>>
    /\ output_file_path' = NoPath
    /\ stats' = NoStats
    /\ stdout' = <<>>
    /\ stderr' = <<>>
    /\ exit_code' = -1
    /\ source_opened' = FALSE
    /\ output_opened' = FALSE
    /\ UNCHANGED fs

Next ==
    \/ ParseCategoryIds
    \/ CheckExists
    \/ LoadSource
    \/ FilterDocument
    \/ OpenOutput
    \/ OpenOutputFails
    \/ DumpDocument
    \/ DumpDocumentFails
    \/ ReportStatistics
    \/ RunAgain

Spec == Init /\ [][Next]_vars

(***************************************************************************)
(* What the claims speak about.                                            *)
(***************************************************************************)
\* The document D of the run: the source file as it was when the run started.
SourceFile == fs_before[Resolve(argv.annotation_file)]
SourceParse == IF SourceFile.exists THEN Load(SourceFile.text) ELSE ParseError
SourceDoc == SourceParse.val
\* The removal set S named on the command line.
RequestedIds ==
    CASE argv.category_ids = <<"0">> -> {0}
      [] argv.category_ids = <<"0", ",", " ", "1">> -> {0, 1}
      [] argv.category_ids = <<"1", ",", "1">> -> {1}
      [] OTHER -> {}
BadIdArgument == argv.category_ids \in {<<"x", ",", "1">>, <<>>}
\* The run has written the whole destination file.
Wrote == pc = "report" \/ (pc = "exited" /\ stats.returned)
DestinationFile == fs[Resolve(output_file_path)]
WrittenDoc == Load(DestinationFile.text).val
KeysOf(d) == [i \in 1..Len(d.v) |-> d.v[i].k]
HasField(record, key) == \E m \in 1..Len(record.v) : record.v[m].k = key
\* The list under a top-level key of a document (empty when there is none).
ListOf(d, key) ==
    IF HasField(d, key) THEN d.v[CHOOSE m \in 1..Len(d.v) : d.v[m].k = key].v.v ELSE <<>>
\* The record has the integer field key with a value in ids.
FieldIn(record, key, ids) ==
    \E m \in 1..Len(record.v) :
        /\ record.v[m].k = key
        /\ record.v[m].v.t = "num"
        /\ record.v[m].v.v \in ids
IndicesIn(list, key, ids) == {i \in 1..Len(list) : FieldIn(list[i], key, ids)}
IndicesNotIn(list, key, ids) == {i \in 1..Len(list) : ~FieldIn(list[i], key, ids)}
NthOf(idx, j) == CHOOSE i \in idx : Cardinality({m \in idx : m < i}) = j - 1
\* out is the elements of inp at the indices idx, in inp's order.
IsSubsequenceAt(out, inp, idx) ==
    /\ Len(out) = Cardinality(idx)
    /\ \A j \in 1..Len(out) : out[j] = inp[NthOf(idx, j)]
LastError == IF stderr = <<>> THEN "" ELSE stderr[Len(stderr)]
WriteFailed == LastError = "Error: Failed to write output file"
FilterErrors ==
    {"Error: 'categories' field not found in annotation file",
     "Error: 'annotations' field not found in annotation file",
     "Error: 'id'", "Error: 'category_id'"}
\* The document has the keys, and its records the fields, that the filter reads.
Readable(d) ==
    /\ HasField(d, "categories")
    /\ HasField(d, "annotations")
    /\ \A i \in 1..Len(ListOf(d, "categories")) : HasField(ListOf(d, "categories")[i], "id")
    /\ \A i \in 1..Len(ListOf(d, "annotations")) :
          HasField(ListOf(d, "annotations")[i], "category_id")
\* No category id and no annotation category_id of the document is in ids.
Disjoint(d, ids) ==
    /\ IndicesIn(ListOf(d, "categories"), "id", ids) = {}
    /\ IndicesIn(ListOf(d, "annotations"), "category_id", ids) = {}

(***************************************************************************)
(* C1.  The categories written are exactly the source categories whose id  *)
(* is not in the removal set, in their original order: every entry with an *)
(* id in the set is gone, also when several categories share that id, and  *)
(* no other entry is dropped.                                              *)
(***************************************************************************)
C1_CategoriesExactlyFiltered ==
    Wrote =>
        LET cats == ListOf(SourceDoc, "categories") IN
        IsSubsequenceAt(ListOf(WrittenDoc, "categories"), cats,
                        IndicesNotIn(cats, "id", RequestedIds))
C1_Witness ==
    /\ Wrote
    /\ ListOf(WrittenDoc, "categories") # <<>>
    /\ LET cats == ListOf(SourceDoc, "categories") IN
       \E i, j \in 1..Len(cats) :
          /\ i < j
          /\ cats[i] # cats[j]
          /\ \E n \in RequestedIds : FieldIn(cats[i], "id", {n}) /\ FieldIn(cats[j], "id", {n})

(***************************************************************************)
(* C2.  The annotations written are exactly the source annotations whose   *)
(* category_id is not in the removal set, in their original order, decided *)
(* by the annotation's own category_id alone: the filter does not fail on  *)
(* a document whose records have the keys it reads, whether or not an id   *)
(* of the set names a category.                                            *)
(***************************************************************************)
C2_AnnotationsExactlyFiltered ==
    /\ Wrote =>
          LET anns == ListOf(SourceDoc, "annotations") IN
          IsSubsequenceAt(ListOf(WrittenDoc, "annotations"), anns,
                          IndicesNotIn(anns, "category_id", RequestedIds))
    /\ (pc = "exited" /\ LastError \in FilterErrors) => ~Readable(SourceDoc)
C2_Witness ==
    /\ Wrote
    /\ ListOf(WrittenDoc, "annotations") # <<>>
    /\ LET d == SourceDoc IN
       \E n \in RequestedIds :
          /\ IndicesIn(ListOf(d, "annotations"), "category_id", {n}) # {}
          /\ IndicesIn(ListOf(d, "categories"), "id", {n}) = {}

(***************************************************************************)
(* C3.  A run that writes changes only the membership of categories and    *)
(* annotations: the written document has the source's top-level keys in    *)
(* the source's order, every other key has the source's value, every       *)
(* written category and annotation is a record of the source unchanged,    *)
(* and no file but the destination is touched.                             *)
(***************************************************************************)
C3_OnlyMembershipChanges ==
    Wrote =>
        LET src == SourceDoc
            out == WrittenDoc
        IN /\ KeysOf(out) = KeysOf(src)
           /\ \A i \in 1..Len(src.v) :
                 src.v[i].k \notin {"categories", "annotations"} => out.v[i] = src.v[i]
           /\ \A key \in {"categories", "annotations"} :
                 \A j \in 1..Len(ListOf(out, key)) :
                     \E i \in 1..Len(ListOf(src, key)) : ListOf(out, key)[j] = ListOf(src, key)[i]
           /\ \A f \in Files : f # Resolve(output_file_path) => fs[f] = fs_before[f]
C3_Witness ==
    /\ Wrote
    /\ Len(ListOf(WrittenDoc, "categories")) = 1
    /\ Len(ListOf(SourceDoc, "categories")) = 2
    /\ Len(ListOf(WrittenDoc, "annotations")) = 0
    /\ Len(ListOf(SourceDoc, "annotations")) = 1
    /\ Resolve(output_file_path) = "fileB"

(***************************************************************************)
(* C4.  As claimed: any structural problem of the loaded document (a       *)
(* missing 'categories' or 'annotations' key, a category without 'id' or   *)
(* 'name', an annotation without 'category_id') keeps the destination from *)
(* being opened, leaves all files as they were and ends the run with exit  *)
(* code 1.                                                                 *)
(***************************************************************************)
Malformed(d) ==
    \/ ~Readable(d)
    \/ \E i \in 1..Len(ListOf(d, "categories")) : ~HasField(ListOf(d, "categories")[i], "name")
C4_AnyStructuralProblemFails ==
    (output_opened \/ fs # fs_before \/ (pc = "exited" /\ exit_code # ExitFailure))
        => ~(SourceParse.ok /\ Malformed(SourceDoc))
(***************************************************************************)
(* C4, amended.  A document without the 'categories' or the 'annotations'  *)
(* key, with a category without 'id' or with an annotation without         *)
(* 'category_id' never gets the destination opened: no file changes, no    *)
(* statistics are returned, and the run ends with exit code 1 and a        *)
(* message on standard error.  (A category without 'name' is not detected: *)
(* the document is filtered and written.)                                  *)
(***************************************************************************)
C4_UnreadableDocumentFailsBeforeWrite ==
    (\/ output_opened
     \/ fs # fs_before
     \/ stats.returned
     \/ pc \in {"open_output", "dump", "report"}
     \/ (pc = "exited" /\ (exit_code # ExitFailure \/ stderr = <<>>)))
        => ~(SourceParse.ok /\ ~Readable(SourceDoc))
C4_Witness ==
    /\ pc = "exited"
    /\ LastError = "Error: 'category_id'"
    /\ argv.output_file = NoPath
    /\ IndicesIn(ListOf(SourceDoc, "categories"), "id", RequestedIds) # {}

(***************************************************************************)
(* C5.  A run whose category-id argument has a non-integer token or is     *)
(* empty, or whose source file does not exist, ends with exit code 1 and   *)
(* one message on standard error without opening the source, parsing it or *)
(* writing any file; the ids are checked before the existence of the       *)
(* source, and the source is opened only after both checks passed.         *)
(***************************************************************************)
C5_ArgumentErrorsFailFirst ==
    /\ (BadIdArgument \/ ~SourceFile.exists) =>
          /\ ~source_opened
          /\ ~output_opened
          /\ data = None
          /\ fs = fs_before
          /\ pc \in {"parse_ids", "check_exists", "exited"}
          /\ pc = "exited" => (exit_code = ExitFailure /\ Len(stderr) = 1 /\ stdout = <<>>)
    /\ (BadIdArgument /\ pc = "exited") =>
          LastError = "Error: Category IDs must be integers separated by commas"
    /\ (~BadIdArgument /\ ~SourceFile.exists /\ pc = "exited") =>
          LastError = "Error: Annotation file not found"
    /\ (BadIdArgument /\ pc # "exited") => pc = "parse_ids"
C5_Witness ==
    /\ pc = "exited"
    /\ argv.category_ids = <<>>
    /\ ~SourceFile.exists

(***************************************************************************)
(* C6.  After a run that ends in a write error the destination holds       *)
(* either its complete previous content or the complete filtered document. *)
(***************************************************************************)
C6_NoPartialFileAfterWriteError ==
    (pc = "exited" /\ WriteFailed) =>
        \/ DestinationFile = fs_before[Resolve(output_file_path)]
        \/ (DestinationFile.exists /\ Load(DestinationFile.text).ok /\ WrittenDoc = data)

(***************************************************************************)
(* C7.  Idempotence: the same removal set applied to the output of a first *)
(* run removes nothing: the second run does not fail in the filter, and    *)
(* when it returns it reports zero removed categories and annotations,     *)
(* exits with code 0 and has written the categories and annotations the    *)
(* first run wrote.                                                        *)
(***************************************************************************)
C7_SecondRunRemovesNothing ==
    /\ (run = "second" /\ pc = "exited") => LastError \notin FilterErrors
    /\ (run = "second" /\ pc = "exited" /\ stats.returned) =>
          /\ stats.categories_removed_count = 0
          /\ stats.annotations_removed_count = 0
          /\ exit_code = ExitSuccess
          /\ ListOf(WrittenDoc, "categories") = ListOf(first.data, "categories")
          /\ ListOf(WrittenDoc, "annotations") = ListOf(first.data, "annotations")
C7_Witness ==
    /\ run = "second"
    /\ pc = "exited"
    /\ stats.returned
    /\ first.stats.categories_removed_count > 0
    /\ first.stats.annotations_removed_count > 0
    /\ ListOf(WrittenDoc, "categories") # <<>>

(***************************************************************************)
(* C8.  As claimed: the text written is indented exactly when the          *)
(* destination is a file other than the source file.                       *)
(***************************************************************************)
Indented(text) == \E i \in 1..Len(text) : text[i] \in Whitespace \ {" "}
C8_IndentedIffDistinctFile ==
    Wrote => (Indented(DestinationFile.text)
                <=> Resolve(output_file_path) # Resolve(argv.annotation_file))
(***************************************************************************)
(* C8, amended.  The text written is indented exactly when an output path  *)
(* is given whose spelling differs from the source path's; it is compact   *)
(* when the output argument is omitted or spelled as the source path is.   *)
(* An output path that names the source file by another spelling           *)
(* overwrites it with indented text.                                       *)
(***************************************************************************)
C8_IndentedIffDistinctPathString ==
    Wrote => (Indented(DestinationFile.text)
                <=> (argv.output_file # NoPath /\ argv.output_file # argv.annotation_file))
C8_Witness ==
    /\ Wrote
    /\ argv.output_file = "./a.json"
    /\ argv.annotation_file = "a.json"
    /\ Indented(DestinationFile.text)

(***************************************************************************)
(* C9.  Identity: when no category id and no annotation category_id of the *)
(* document is in the removal set, a run that meets no write failure exits *)
(* with code 0, reports zero removed categories and annotations, and has   *)
(* written categories and annotations equal to the originals.              *)
(***************************************************************************)
C9_Identity ==
    (pc = "exited" /\ ~WriteFailed /\ ~BadIdArgument /\ SourceParse.ok) =>
        LET src == SourceDoc IN
        (Readable(src) /\ Disjoint(src, RequestedIds)) =>
            /\ exit_code = ExitSuccess
            /\ stderr = <<>>
            /\ stats.returned
            /\ stats.categories_removed_count = 0
            /\ stats.annotations_removed_count = 0
            /\ ListOf(WrittenDoc, "categories") = ListOf(src, "categories")
            /\ ListOf(WrittenDoc, "annotations") = ListOf(src, "annotations")
C9_Witness ==
    /\ pc = "exited"
    /\ exit_code = ExitSuccess
    /\ ~BadIdArgument
    /\ Readable(SourceDoc)
    /\ Disjoint(SourceDoc, RequestedIds)
    /\ argv.verbose
    /\ Len(ListOf(SourceDoc, "categories")) = 2
    /\ Len(ListOf(SourceDoc, "annotations")) = 1

(***************************************************************************)
(* C10.  The returned statistics agree with the filter result: for both    *)
(* collections the original count is the source's length and equals the    *)
(* final count plus the removed count, the final counts are the lengths    *)
(* written, 'categories_removed' is the removed category records in their  *)
(* original order, and 'output_file' is the output path or, when none was  *)
(* given, the source path.  Repeated ids on the command line count once.   *)
(***************************************************************************)
C10_StatisticsConsistent ==
    stats.returned =>
        LET src == SourceDoc
            out == WrittenDoc
        IN /\ stats.original_categories_count = Len(ListOf(src, "categories"))
           /\ stats.original_annotations_count = Len(ListOf(src, "annotations"))
           /\ stats.original_categories_count
                 = stats.final_categories_count + stats.categories_removed_count
           /\ stats.original_annotations_count
                 = stats.final_annotations_count + stats.annotations_removed_count
           /\ stats.final_categories_count = Len(ListOf(out, "categories"))
           /\ stats.final_annotations_count = Len(ListOf(out, "annotations"))
           /\ IsSubsequenceAt(stats.categories_removed, ListOf(src, "categories"),
                              IndicesIn(ListOf(src, "categories"), "id", RequestedIds))
           /\ stats.categories_removed_count = Len(stats.categories_removed)
           /\ stats.annotations_removed_count
                 = Cardinality(IndicesIn(ListOf(src, "annotations"), "category_id",
                                         RequestedIds))
           /\ stats.output_file
                 = (IF argv.output_file = NoPath THEN argv.annotation_file
                    ELSE argv.output_file)
C10_Witness ==
    /\ stats.returned
    /\ argv.category_ids = <<"1", ",", "1">>
    /\ argv.output_file = NoPath
    /\ stats.categories_removed_count = 2
    /\ stats.annotations_removed_count = 1

====
